---- MODULE Spec2Model ----
(***************************************************************************)
(* Model of src/get_data.py: the wiki scraper's run() pipeline (facility   *)
(* discovery, facility fetch, aggregation, item fetch, enrichment, image   *)
(* download, JSON export) and its pure helper normalize_item_image_url.    *)
(*                                                                         *)
(* Python str values are sequences of one-character strings, so that       *)
(* split / replace / "in" are computed on characters as the code does; a   *)
(* character outside printable ASCII is written "U+" and its code point.   *)
(* A Path is the sequence of its components.  The file system maps the     *)
(* absolute paths that exist to what they hold; the run's working          *)
(* directory is WORKDIR, and there are no symbolic links.                  *)
(***************************************************************************)
EXTENDS Integers, Sequences, FiniteSets, TLC

\* Python None; a one-element sequence, so that it compares with any str
None == << "None" >>

\* ------------------------------------------------------------------------
\* Python str operations
\* ------------------------------------------------------------------------

\* s.startswith(p) at offset i (1-based)
MatchAt(s, p, i) ==
    /\ i + Len(p) - 1 <= Len(s)
    /\ SubSeq(s, i, i + Len(p) - 1) = p

\* the smallest element of a set of positions, 0 for the empty set
First(hits) == IF hits = { } THEN 0 ELSE CHOOSE i \in hits : \A j \in hits : i <= j

\* s.find(sep) as a 1-based index, 0 when absent
Find(s, sep) == First({ i \in 1..(Len(s) - Len(sep) + 1) : MatchAt(s, sep, i) })

\* sep in s
Contains(s, sep) == Find(s, sep) # 0

\* s.split(sep), sep non-empty: the list of pieces between occurrences
RECURSIVE Split(_, _)
Split(s, sep) ==
    LET i == Find(s, sep) IN
    IF i = 0 THEN << s >>
    ELSE << SubSeq(s, 1, i - 1) >> \o Split(SubSeq(s, i + Len(sep), Len(s)), sep)

\* s.replace(" ", "_")
ReplaceSpaces(s) == [i \in 1..Len(s) |-> IF s[i] = " " THEN "_" ELSE s[i]]

\* list[-1]
Last(l) == l[Len(l)]

THUMB == << "/", "t", "h", "u", "m", "b", "/" >>
IMAGES == << "/", "i", "m", "a", "g", "e", "s", "/" >>
SLASH == << "/" >>
QMARK == << "?" >>

\* ------------------------------------------------------------------------
\* normalize_item_image_url
\* ------------------------------------------------------------------------
normalize_item_image_url(src) ==
    IF ~Contains(src, THUMB) THEN src
    ELSE LET parts == Split(src, THUMB)
             rest == parts[2]
             filename == Split(rest, SLASH)[1]
             query == IF Contains(src, QMARK)
                      THEN QMARK \o Split(src, QMARK)[2]
                      ELSE << >>
         IN IMAGES \o filename \o query

\* ------------------------------------------------------------------------
\* Characters.  A printable ASCII character is itself; any other code point
\* (and the grave accent, which a TLA+ string cannot hold) is written
\* "U+" followed by its upper-case hexadecimal number, at least 4 digits.
\* ------------------------------------------------------------------------
Ascii ==
    << " ", "!", "\"", "#", "$", "%", "&", "'", "(", ")", "*", "+", ",", "-", ".", "/",
       "0", "1", "2", "3", "4", "5", "6", "7", "8", "9", ":", ";", "<", "=", ">", "?",
       "@", "A", "B", "C", "D", "E", "F", "G", "H", "I", "J", "K", "L", "M", "N", "O",
       "P", "Q", "R", "S", "T", "U", "V", "W", "X", "Y", "Z", "[", "\\", "]", "^", "_",
       "U+0060", "a", "b", "c", "d", "e", "f", "g", "h", "i", "j", "k", "l", "m", "n", "o",
       "p", "q", "r", "s", "t", "u", "v", "w", "x", "y", "z", "{", "|", "}", "~" >>

HexDigits == << "0", "1", "2", "3", "4", "5", "6", "7", "8", "9",
                "a", "b", "c", "d", "e", "f", "A", "B", "C", "D", "E", "F" >>

IsHex(c) == \E k \in 1..Len(HexDigits) : HexDigits[k] = c

HexVal(c) ==
    LET k == CHOOSE k \in 1..Len(HexDigits) : HexDigits[k] = c
    IN IF k <= 16 THEN k - 1 ELSE k - 7

UpperHex == << "0", "1", "2", "3", "4", "5", "6", "7", "8", "9",
               "A", "B", "C", "D", "E", "F" >>

RECURSIVE HexStr(_, _)
HexStr(n, width) ==
    IF n < 16 /\ width <= 1 THEN UpperHex[n + 1]
    ELSE HexStr(n \div 16, width - 1) \o UpperHex[(n % 16) + 1]

\* chr(cp)
CharOf(cp) ==
    IF cp >= 32 /\ cp <= 126 THEN Ascii[cp - 31] ELSE "U+" \o HexStr(cp, 4)

REPLACEMENT == CharOf(65533)

\* ------------------------------------------------------------------------
\* urllib.parse.unquote: every run of %XX escapes is turned into bytes and
\* decoded as UTF-8 with errors="replace"
\* ------------------------------------------------------------------------
IsEscapeAt(s, i) ==
    /\ i + 2 <= Len(s)
    /\ s[i] = "%"
    /\ IsHex(s[i + 1])
    /\ IsHex(s[i + 2])

\* the number of consecutive escapes that start at position i
RECURSIVE EscapeRun(_, _)
EscapeRun(s, i) == IF IsEscapeAt(s, i) THEN 1 + EscapeRun(s, i + 3) ELSE 0

RunBytes(s, i, n) ==
    [k \in 1..n |-> 16 * HexVal(s[i + 3 * (k - 1) + 1]) + HexVal(s[i + 3 * (k - 1) + 2])]

\* for a UTF-8 lead byte: the number of continuation bytes and the range
\* the first of them must lie in; n = 0 for a byte that cannot lead
Utf8Lead(b) ==
    IF b >= 194 /\ b <= 223 THEN [n |-> 1, lo |-> 128, hi |-> 191]
    ELSE IF b = 224 THEN [n |-> 2, lo |-> 160, hi |-> 191]
    ELSE IF b = 237 THEN [n |-> 2, lo |-> 128, hi |-> 159]
    ELSE IF b >= 225 /\ b <= 239 THEN [n |-> 2, lo |-> 128, hi |-> 191]
    ELSE IF b = 240 THEN [n |-> 3, lo |-> 144, hi |-> 191]
    ELSE IF b >= 241 /\ b <= 243 THEN [n |-> 3, lo |-> 128, hi |-> 191]
    ELSE IF b = 244 THEN [n |-> 3, lo |-> 128, hi |-> 143]
    ELSE [n |-> 0, lo |-> 0, hi |-> 0]

\* how many of the bytes after the lead byte bs[1] continue its sequence
RECURSIVE Utf8Valid(_, _, _)
Utf8Valid(bs, lead, k) ==
    IF k > lead.n \/ k + 1 > Len(bs) THEN k - 1
    ELSE LET lo == IF k = 1 THEN lead.lo ELSE 128
             hi == IF k = 1 THEN lead.hi ELSE 191
         IN IF bs[k + 1] >= lo /\ bs[k + 1] <= hi
            THEN Utf8Valid(bs, lead, k + 1)
            ELSE k - 1

Utf8CodePoint(bs, n) ==
    IF n = 1 THEN (bs[1] - 192) * 64 + (bs[2] - 128)
    ELSE IF n = 2 THEN (bs[1] - 224) * 4096 + (bs[2] - 128) * 64 + (bs[3] - 128)
    ELSE (bs[1] - 240) * 262144 + (bs[2] - 128) * 4096 + (bs[3] - 128) * 64 + (bs[4] - 128)

\* bytes.decode("utf-8", "replace"): an ill-formed sequence yields one
\* replacement character for its longest well-formed prefix
RECURSIVE DecodeUtf8(_)
DecodeUtf8(bs) ==
    IF bs = << >> THEN << >>
    ELSE IF bs[1] < 128 THEN << CharOf(bs[1]) >> \o DecodeUtf8(Tail(bs))
    ELSE LET lead == Utf8Lead(bs[1])
             m == Utf8Valid(bs, lead, 1)
         IN IF lead.n > 0 /\ m = lead.n
            THEN << CharOf(Utf8CodePoint(bs, lead.n)) >>
                 \o DecodeUtf8(SubSeq(bs, lead.n + 2, Len(bs)))
            ELSE << REPLACEMENT >> \o DecodeUtf8(SubSeq(bs, m + 2, Len(bs)))

\* unquote(s): the text up to the first '%' is kept (a string without '%'
\* is returned as it is), a run of escapes is decoded, a '%' that starts no
\* escape is kept
RECURSIVE unquote(_)
unquote(s) ==
    LET AtRun(n) ==
            IF n > 0
            THEN DecodeUtf8(RunBytes(s, 1, n)) \o unquote(SubSeq(s, 3 * n + 1, Len(s)))
            ELSE << s[1] >> \o unquote(Tail(s))
        AtPercent(p) ==
            IF p = 0 THEN s
            ELSE IF p > 1 THEN SubSeq(s, 1, p - 1) \o unquote(SubSeq(s, p, Len(s)))
            ELSE AtRun(EscapeRun(s, 1))
    IN AtPercent(Find(s, << "%" >>))

\* ------------------------------------------------------------------------
\* urllib.parse.urlparse, urlunparse and urljoin
\* ------------------------------------------------------------------------
BASE_URL == << "h", "t", "t", "p", "s", ":", "/", "/", "e", "n", "d", "f", "i", "e",
               "l", "d", ".", "w", "i", "k", "i", ".", "g", "g" >>

uses_relative ==
    { << >>, << "f", "t", "p" >>, << "h", "t", "t", "p" >>,
      << "g", "o", "p", "h", "e", "r" >>, << "n", "n", "t", "p" >>,
      << "i", "m", "a", "p" >>, << "w", "a", "i", "s" >>,
      << "f", "i", "l", "e" >>, << "h", "t", "t", "p", "s" >>,
      << "s", "h", "t", "t", "p" >>, << "m", "m", "s" >>,
      << "p", "r", "o", "s", "p", "e", "r", "o" >>, << "r", "t", "s", "p" >>,
      << "r", "t", "s", "p", "s" >>, << "r", "t", "s", "p", "u" >>,
      << "s", "f", "t", "p" >>, << "s", "v", "n" >>,
      << "s", "v", "n", "+", "s", "s", "h" >>, << "w", "s" >>,
      << "w", "s", "s" >> }

uses_netloc ==
    { << >>, << "f", "t", "p" >>, << "h", "t", "t", "p" >>,
      << "g", "o", "p", "h", "e", "r" >>, << "n", "n", "t", "p" >>,
      << "t", "e", "l", "n", "e", "t" >>, << "i", "m", "a", "p" >>,
      << "w", "a", "i", "s" >>, << "f", "i", "l", "e" >>,
      << "m", "m", "s" >>, << "h", "t", "t", "p", "s" >>,
      << "s", "h", "t", "t", "p" >>, << "s", "n", "e", "w", "s" >>,
      << "p", "r", "o", "s", "p", "e", "r", "o" >>, << "r", "t", "s", "p" >>,
      << "r", "t", "s", "p", "s" >>, << "r", "t", "s", "p", "u" >>,
      << "r", "s", "y", "n", "c" >>, << "s", "v", "n" >>,
      << "s", "v", "n", "+", "s", "s", "h" >>, << "s", "f", "t", "p" >>,
      << "n", "f", "s" >>, << "g", "i", "t" >>,
      << "g", "i", "t", "+", "s", "s", "h" >>, << "w", "s" >>,
      << "w", "s", "s" >> }

uses_params ==
    { << >>, << "f", "t", "p" >>, << "h", "d", "l" >>,
      << "p", "r", "o", "s", "p", "e", "r", "o" >>, << "h", "t", "t", "p" >>,
      << "i", "m", "a", "p" >>, << "h", "t", "t", "p", "s" >>,
      << "s", "h", "t", "t", "p" >>, << "r", "t", "s", "p" >>,
      << "r", "t", "s", "p", "s" >>, << "r", "t", "s", "p", "u" >>,
      << "s", "i", "p" >>, << "s", "i", "p", "s" >>, << "m", "m", "s" >>,
      << "s", "f", "t", "p" >>, << "t", "e", "l" >> }

AsciiIndex(c) ==
    IF \E k \in 1..Len(Ascii) : Ascii[k] = c
    THEN CHOOSE k \in 1..Len(Ascii) : Ascii[k] = c
    ELSE 0

IsUpper(c) == AsciiIndex(c) >= 34 /\ AsciiIndex(c) <= 59
IsLower(c) == AsciiIndex(c) >= 66 /\ AsciiIndex(c) <= 91
IsDigit(c) == AsciiIndex(c) >= 17 /\ AsciiIndex(c) <= 26
IsSchemeChar(c) == IsUpper(c) \/ IsLower(c) \/ IsDigit(c) \/ c \in { "+", "-", "." }

\* str.lower() on ASCII
Lower(s) == [i \in 1..Len(s) |-> IF IsUpper(s[i]) THEN Ascii[AsciiIndex(s[i]) + 32] ELSE s[i]]

\* the characters urlsplit strips from the front of a URL, and those it
\* removes everywhere (tab, line feed, carriage return)
C0ControlOrSpace == { CharOf(k) : k \in 0..32 }
UnsafeUrlChars == { CharOf(9), CharOf(10), CharOf(13) }

RECURSIVE LStrip(_, _)
LStrip(s, chars) ==
    IF s # << >> /\ s[1] \in chars THEN LStrip(Tail(s), chars) ELSE s

RemoveChars(s, chars) == SelectSeq(s, LAMBDA c : c \notin chars)

\* the smallest position from start on that holds one of chars, Len(s) + 1
\* when there is none
FirstOf(s, chars, start) ==
    First({ i \in start..Len(s) : s[i] \in chars } \cup { Len(s) + 1 })

\* s.rfind(c) as a 1-based index, 0 when absent
RFind(s, c) ==
    LET hits == { i \in 1..Len(s) : s[i] = c }
    IN IF hits = { } THEN 0 ELSE CHOOSE i \in hits : \A j \in hits : i >= j

DOT == << "." >>
DOTDOT == << ".", "." >>

\* str.strip(chars)
RECURSIVE RStrip(_, _)
RStrip(s, chars) ==
    IF s # << >> /\ s[Len(s)] \in chars THEN RStrip(SubSeq(s, 1, Len(s) - 1), chars) ELSE s

Strip(s, chars) == RStrip(LStrip(s, chars), chars)

\* what stands for the result of a call that raises: a record where the
\* call returns a record, a sequence where it returns a string
ValueError == [raises |-> "ValueError"]
AttributeError == [raises |-> "AttributeError"]
RAISED == << "raises ValueError" >>

Raised(r) == "raises" \in DOMAIN r

\* int(s, 10) of a string of decimal digits
RECURSIVE DecVal(_)
DecVal(s) ==
    IF s = << >> THEN 0
    ELSE 10 * DecVal(SubSeq(s, 1, Len(s) - 1)) + (AsciiIndex(s[Len(s)]) - 17)

\* ipaddress._BaseV4._parse_octet does not raise
IsOctet(o) ==
    /\ o # << >>
    /\ \A k \in 1..Len(o) : IsDigit(o[k])
    /\ Len(o) <= 3
    /\ o = << "0" >> \/ o[1] # "0"
    /\ DecVal(o) <= 255

\* ipaddress.IPv4Address(s) does not raise
IsIPv4(s) ==
    /\ ~Contains(s, SLASH)
    /\ s # << >>
    /\ Len(Split(s, DOT)) = 4
    /\ \A k \in 1..4 : IsOctet(Split(s, DOT)[k])

\* ipaddress._BaseV6._parse_hextet does not raise
IsHextet(h) == h # << >> /\ Len(h) <= 4 /\ \A k \in 1..Len(h) : IsHex(h[k])

\* _ip_int_from_string from the search for '::' on; skips holds the
\* positions of the empty parts between the first and the last part
HextetsValid(parts, skips) ==
    IF Cardinality(skips) > 1 THEN FALSE
    ELSE IF skips = {}
    THEN /\ Len(parts) = 8
         /\ \A k \in 1..8 : IsHextet(parts[k])
    ELSE \E k \in skips :
            /\ parts[1] = << >> => k = 2
            /\ parts[Len(parts)] = << >> => k = Len(parts) - 1
            /\ 8 - (  (IF parts[1] = << >> THEN 0 ELSE k - 1)
                    + (IF parts[Len(parts)] = << >> THEN 0 ELSE Len(parts) - k)) >= 1
            /\ parts[1] # << >> => \A j \in 1..(k - 1) : IsHextet(parts[j])
            /\ parts[Len(parts)] # << >> =>
                   \A j \in (k + 1)..Len(parts) : IsHextet(parts[j])

\* _ip_int_from_string once a dotted last part has been turned into two
\* hextets
PartsValid(parts) ==
    /\ Len(parts) <= 9
    /\ HextetsValid(parts, { k \in 2..(Len(parts) - 1) : parts[k] = << >> })

\* ipaddress._BaseV6._ip_int_from_string does not raise
ColonPartsValid(parts) ==
    /\ Len(parts) >= 3
    /\ IF Contains(Last(parts), DOT)
       THEN /\ IsIPv4(Last(parts))
            /\ PartsValid(SubSeq(parts, 1, Len(parts) - 1) \o << << "0" >>, << "0" >> >>)
       ELSE PartsValid(parts)

\* _split_scope_id: the address and, after a '%', a scope id that is not
\* empty and holds no '%'
ScopedValid(s, percent) ==
    IF percent = 0 THEN s # << >> /\ ColonPartsValid(Split(s, << ":" >>))
    ELSE /\ percent < Len(s)
         /\ ~Contains(SubSeq(s, percent + 1, Len(s)), << "%" >>)
         /\ percent > 1
         /\ ColonPartsValid(Split(SubSeq(s, 1, percent - 1), << ":" >>))

\* ipaddress.IPv6Address(s) does not raise
IsIPv6(s) == ~Contains(s, SLASH) /\ ScopedValid(s, Find(s, << "%" >>))

\* the position where the run of hex digits that starts at k ends
RECURSIVE HexRunEnd(_, _)
HexRunEnd(h, k) == IF k <= Len(h) /\ IsHex(h[k]) THEN HexRunEnd(h, k + 1) ELSE k

\* re.match(r"\Av[a-fA-F0-9]+\..+\Z", h) for an h that starts with 'v'
IsIPvFuture(h) ==
    LET At(run) ==
            /\ run > 2
            /\ run < Len(h)
            /\ h[run] = "."
            /\ \A k \in (run + 1)..Len(h) : h[k] # CharOf(10)
    IN At(HexRunEnd(h, 2))

\* _check_bracketed_host does not raise: an IPvFuture address, or an
\* address ip_address accepts that is not an IPv4 address
BracketedHostValid(h) ==
    IF h # << >> /\ h[1] = "v" THEN IsIPvFuture(h) ELSE IsIPv6(h)

\* netloc.partition('[')[2].partition(']')[0]
BracketedHost(netloc) ==
    LET after == SubSeq(netloc, Find(netloc, << "[" >>) + 1, Len(netloc))
        close == Find(after, << "]" >>)
    IN IF close = 0 THEN after ELSE SubSeq(after, 1, close - 1)

\* the bracket checks of urlsplit do not raise
BracketsValid(netloc) ==
    /\ Contains(netloc, << "[" >>) <=> Contains(netloc, << "]" >>)
    /\ Contains(netloc, << "[" >>) => BracketedHostValid(BracketedHost(netloc))

\* the characters whose NFKC form holds one of / ? # @ :
NfkcUnsafe ==
    { CharOf(8263), CharOf(8264), CharOf(8265), CharOf(8448), CharOf(8449),
      CharOf(8453), CharOf(8454), CharOf(10868), CharOf(65043), CharOf(65046),
      CharOf(65109), CharOf(65110), CharOf(65119), CharOf(65131), CharOf(65283),
      CharOf(65295), CharOf(65306), CharOf(65311), CharOf(65312) }

IsAscii(c) == AsciiIndex(c) > 0 \/ \E k \in 0..127 : c = CharOf(k)

\* _checknetloc does not raise
NetlocValid(netloc) ==
    \/ \A k \in 1..Len(netloc) : IsAscii(netloc[k])
    \/ \A k \in 1..Len(netloc) : netloc[k] \notin NfkcUnsafe

\* urlparse(url, scheme=default) in the order the code splits the URL:
\* scheme, netloc, fragment, query, params.  Each step hands its pieces to
\* the next.
SplitParams(scheme, netloc, rest, query, fragment, semi) ==
    IF scheme \in uses_params /\ semi <= Len(rest)
    THEN [scheme |-> scheme, netloc |-> netloc,
          path |-> SubSeq(rest, 1, semi - 1),
          params |-> SubSeq(rest, semi + 1, Len(rest)),
          query |-> query, fragment |-> fragment]
    ELSE [scheme |-> scheme, netloc |-> netloc, path |-> rest, params |-> << >>,
          query |-> query, fragment |-> fragment]

SplitPath(scheme, netloc, rest, query, fragment) ==
    IF ~NetlocValid(netloc) THEN ValueError
    ELSE SplitParams(scheme, netloc, rest, query, fragment,
                     FirstOf(rest, { ";" }, RFind(rest, "/") + 1))

SplitQuery(scheme, netloc, rest, fragment) ==
    LET At(q) ==
            IF q = 0 THEN SplitPath(scheme, netloc, rest, << >>, fragment)
            ELSE SplitPath(scheme, netloc, SubSeq(rest, 1, q - 1),
                           SubSeq(rest, q + 1, Len(rest)), fragment)
    IN At(Find(rest, QMARK))

SplitFragment(scheme, netloc, rest) ==
    LET At(hash) ==
            IF hash = 0 THEN SplitQuery(scheme, netloc, rest, << >>)
            ELSE SplitQuery(scheme, netloc, SubSeq(rest, 1, hash - 1),
                            SubSeq(rest, hash + 1, Len(rest)))
    IN At(Find(rest, << "#" >>))

\* the netloc is cut off at delim, then checked for brackets
SplitNetloc(scheme, rest) ==
    LET Of(netloc, after) ==
            IF ~BracketsValid(netloc) THEN ValueError
            ELSE SplitFragment(scheme, netloc, after)
        At(delim) == Of(SubSeq(rest, 3, delim - 1), SubSeq(rest, delim, Len(rest)))
    IN IF Len(rest) >= 2 /\ rest[1] = "/" /\ rest[2] = "/"
       THEN At(FirstOf(rest, { "/", "?", "#" }, 3))
       ELSE SplitFragment(scheme, << >>, rest)

SplitScheme(url, default) ==
    LET At(colon) ==
            IF /\ colon > 1
               /\ IsUpper(url[1]) \/ IsLower(url[1])
               /\ \A k \in 1..(colon - 1) : IsSchemeChar(url[k])
            THEN SplitNetloc(Lower(SubSeq(url, 1, colon - 1)),
                             SubSeq(url, colon + 1, Len(url)))
            ELSE SplitNetloc(default, url)
    IN At(Find(url, << ":" >>))

urlparse(url, default) ==
    SplitScheme(RemoveChars(LStrip(url, C0ControlOrSpace), UnsafeUrlChars),
                RemoveChars(Strip(default, C0ControlOrSpace), UnsafeUrlChars))

UnsplitFrom(r, u2) ==
    (IF r.query # << >> THEN u2 \o QMARK \o r.query ELSE u2)
        \o (IF r.fragment # << >> THEN << "#" >> \o r.fragment ELSE << >>)

UnsplitPath(r, u0) ==
    UnsplitFrom(r,
        (IF r.scheme # << >> THEN r.scheme \o << ":" >> ELSE << >>)
        \o (IF \/ r.netloc # << >>
               \/ /\ r.scheme # << >>
                  /\ r.scheme \in uses_netloc
                  /\ ~(Len(u0) >= 2 /\ u0[1] = "/" /\ u0[2] = "/")
            THEN << "/", "/" >> \o r.netloc
                 \o (IF u0 # << >> /\ u0[1] # "/" THEN SLASH ELSE << >>) \o u0
            ELSE u0))

urlunparse(r) ==
    UnsplitPath(r, IF r.params # << >> THEN r.path \o << ";" >> \o r.params ELSE r.path)

RECURSIVE Join(_, _)
Join(parts, sep) ==
    IF parts = << >> THEN << >>
    ELSE IF Len(parts) = 1 THEN parts[1]
    ELSE parts[1] \o sep \o Join(Tail(parts), sep)

\* the loop of urljoin that removes the dot segments
RECURSIVE ResolveSegments(_, _)
ResolveSegments(resolved, segments) ==
    IF segments = << >> THEN resolved
    ELSE IF segments[1] = DOTDOT
         THEN ResolveSegments(IF resolved = << >> THEN resolved
                              ELSE SubSeq(resolved, 1, Len(resolved) - 1),
                              Tail(segments))
    ELSE IF segments[1] = DOT THEN ResolveSegments(resolved, Tail(segments))
    ELSE ResolveSegments(Append(resolved, segments[1]), Tail(segments))

\* netloc = bnetloc for a scheme of uses_netloc
JoinNetloc(b, u) == IF u.scheme \in uses_netloc THEN b.netloc ELSE u.netloc

\* the last lines of urljoin: the dot segments are resolved and the URL is
\* put together again
JoinResolved(b, u, segments) ==
    urlunparse([scheme |-> u.scheme, netloc |-> JoinNetloc(b, u),
                path |-> (LET joined == Join(IF Last(segments) \in { DOT, DOTDOT }
                                             THEN Append(ResolveSegments(<< >>, segments), << >>)
                                             ELSE ResolveSegments(<< >>, segments),
                                             SLASH)
                          IN IF joined = << >> THEN SLASH ELSE joined),
                params |-> u.params, query |-> u.query, fragment |-> u.fragment])

\* segments[1:-1] = filter(None, segments[1:-1])
FilterMiddle(segs) ==
    IF Len(segs) <= 1 THEN segs
    ELSE << segs[1] >>
         \o SelectSeq(SubSeq(segs, 2, Len(segs) - 1), LAMBDA x : x # << >>)
         \o << segs[Len(segs)] >>

BaseParts(bp) == IF Last(bp) # << >> THEN SubSeq(bp, 1, Len(bp) - 1) ELSE bp

JoinParsed(base, url, b, u) ==
    IF Raised(u) THEN RAISED
    ELSE IF u.scheme # b.scheme \/ u.scheme \notin uses_relative THEN url
    ELSE IF u.scheme \in uses_netloc /\ u.netloc # << >> THEN urlunparse(u)
    ELSE IF u.path = << >> /\ u.params = << >>
    THEN urlunparse([scheme |-> u.scheme, netloc |-> JoinNetloc(b, u), path |-> b.path,
                     params |-> b.params,
                     query |-> IF u.query = << >> THEN b.query ELSE u.query,
                     fragment |-> u.fragment])
    ELSE IF u.path # << >> /\ u.path[1] = "/"
    THEN JoinResolved(b, u, Split(u.path, SLASH))
    ELSE JoinResolved(b, u,
                      FilterMiddle(BaseParts(Split(b.path, SLASH)) \o Split(u.path, SLASH)))

JoinBase(base, url, b) ==
    IF Raised(b) THEN RAISED ELSE JoinParsed(base, url, b, urlparse(url, b.scheme))

\* urljoin(base, url); RAISED when urlparse raises on one of the two
urljoin(base, url) ==
    IF base = << >> THEN url
    ELSE IF url = << >> THEN base
    ELSE JoinBase(base, url, urlparse(base, << >>))

\* ------------------------------------------------------------------------
\* pathlib
\* ------------------------------------------------------------------------
\* the components of Path(p): "" and "." components are dropped
PathParts(p) == SelectSeq(Split(p, SLASH), LAMBDA x : x # << >> /\ x # DOT)

\* Path(p): a path is the list of its components, ".." components
\* included, after the root "/" when p starts with a slash
Path(p) == (IF p # << >> /\ p[1] = "/" THEN << SLASH >> ELSE << >>) \o PathParts(p)

\* Path(p).name: the last component
PathName(p) ==
    LET parts == PathParts(p) IN IF parts = << >> THEN << >> ELSE Last(parts)

\* Path(p).stem: the name up to its last dot, unless that dot is the first
\* or the last character of the name
Stem(p) ==
    LET name == PathName(p)
        dot == RFind(name, ".")
    IN IF dot > 1 /\ dot < Len(name) THEN SubSeq(name, 1, dot - 1) ELSE name

\* Python truthiness of an Optional[str]
Truthy(x) == x # None /\ x # << >>

PNG == << ".", "p", "n", "g" >>
EXPORT == << "e", "x", "p", "o", "r", "t", "/" >>
ITEMS_DIR ==
    << "i", "m", "a", "g", "e", "s", "/", "i", "t", "e", "m", "s", "/" >>
FACILITIES_DIR ==
    << "i", "m", "a", "g", "e", "s", "/", "f", "a", "c", "i", "l", "i", "t", "i", "e", "s", "/" >>

\* src.split("/")[-1].split("?")[0], then unquote
ImageFilename(src) == unquote(Split(Last(Split(src, SLASH)), QMARK)[1])

\* ------------------------------------------------------------------------
\* The file system: the absolute path of every file and directory, as the
\* list of its components (the root is << >>), mapped to its content, which
\* is "directory" for a directory.  A relative path is looked up from the
\* working directory.
\* ------------------------------------------------------------------------
WORKDIR == << << "w" >> >>

\* the limits of the system calls: the bytes of one name, the bytes of a path
NAME_MAX == 255
PATH_MAX == 4096

\* os.fsencode is UTF-8 with surrogateescape: the characters of one byte
\* (ASCII and the escapes U+DC80..U+DCFF), those of two bytes, and the
\* surrogates that cannot be encoded
OneByteChars == { CharOf(k) : k \in 0..127 } \cup { CharOf(k) : k \in 56448..56575 }
TwoByteChars == { CharOf(k) : k \in 128..2047 }
NotEncodable == { CharOf(k) : k \in 55296..57343 } \ OneByteChars

\* len(os.fsencode(s))
ByteLen(s) ==
    LET Of(wide) ==
            Len(s) + Cardinality(wide)
            + Cardinality({ k \in wide : s[k] \notin TwoByteChars })
            + Cardinality({ k \in wide : s[k] \notin TwoByteChars /\ Len(s[k]) > 6 })
    IN Of({ k \in 1..Len(s) : s[k] \notin OneByteChars })

IsDirectory(fs, cur) == cur \in DOMAIN fs /\ fs[cur] = "directory"

\* the path lookup of the kernel, component by component from the directory
\* cur on: a name is looked up in a directory only ("x/.." does not name
\* the directory of x unless x is a directory), and a name of more than
\* NAME_MAX bytes is refused.  parts is the absolute path reached, which
\* may not exist when it is the last component that is missing.
RECURSIVE Walk(_, _, _)
Walk(fs, cur, rest) ==
    IF rest = << >> THEN [errno |-> "none", parts |-> cur]
    ELSE IF cur \notin DOMAIN fs THEN [errno |-> "ENOENT", parts |-> cur]
    ELSE IF fs[cur] # "directory" THEN [errno |-> "ENOTDIR", parts |-> cur]
    ELSE IF rest[1] = SLASH THEN Walk(fs, << >>, Tail(rest))
    ELSE IF rest[1] = DOTDOT
    THEN Walk(fs, IF cur = << >> THEN cur ELSE SubSeq(cur, 1, Len(cur) - 1), Tail(rest))
    ELSE IF ByteLen(rest[1]) > NAME_MAX THEN [errno |-> "ENAMETOOLONG", parts |-> cur]
    ELSE Walk(fs, Append(cur, rest[1]), Tail(rest))

\* len(os.fsencode(str(path))): the names and the separators between them;
\* the empty path is "."
RECURSIVE NameBytes(_, _, _)
NameBytes(path, lo, hi) ==
    IF lo > hi THEN 0
    ELSE IF lo = hi THEN ByteLen(path[lo])
    ELSE NameBytes(path, lo, (lo + hi) \div 2) + NameBytes(path, (lo + hi) \div 2 + 1, hi)

PathBytes(path) ==
    IF path = << >> THEN 1
    ELSE NameBytes(path, 1, Len(path))
         + (IF path[1] # SLASH THEN Len(path) - 1
            ELSE IF Len(path) = 1 THEN 0 ELSE Len(path) - 2)

\* what a system call on the path finds.  Python hands str(path) to the
\* call: encoding it raises UnicodeEncodeError for a surrogate that cannot
\* be encoded, then ValueError for an embedded NUL; the kernel refuses a
\* path of PATH_MAX bytes or more, then walks it.
Lookup(fs, path) ==
    LET Has(chars) == \E k \in 1..Len(path) : \E j \in 1..Len(path[k]) : path[k][j] \in chars
        With(nul) ==
            IF Has(NotEncodable) THEN [errno |-> "UnicodeEncodeError", parts |-> << >>]
            ELSE IF Has({ nul }) THEN [errno |-> "ValueError", parts |-> << >>]
            ELSE IF PathBytes(path) >= PATH_MAX
            THEN [errno |-> "ENAMETOOLONG", parts |-> << >>]
            ELSE Walk(fs, WORKDIR, path)
    IN With(CharOf(0))

\* the exception class of an error the lookup met
ErrorClass(errno) ==
    IF errno = "ENOENT" THEN "FileNotFoundError"
    ELSE IF errno = "ENOTDIR" THEN "NotADirectoryError"
    ELSE IF errno = "ENAMETOOLONG" THEN "OSError"
    ELSE errno

\* save_path.exists() raises: Path.exists returns False on ENOENT, ENOTDIR
\* and ValueError (UnicodeEncodeError is one) and lets any other OSError
\* through
ExistsRaises(fs, path) == Lookup(fs, path).errno = "ENAMETOOLONG"

\* save_path.exists() returns True
Exists(fs, path) ==
    LET At(l) == l.errno = "none" /\ l.parts \in DOMAIN fs
    IN At(Lookup(fs, path))

\* save_path.write_bytes(body): the exception it raises, "none" when the
\* file is written, and the file system afterwards
WriteBytes(fs, path, body) ==
    LET At(l) ==
            IF l.errno # "none" THEN [raises |-> ErrorClass(l.errno), fs |-> fs]
            ELSE IF IsDirectory(fs, l.parts) THEN [raises |-> "IsADirectoryError", fs |-> fs]
            ELSE [raises |-> "none",
                  fs |-> [p \in DOMAIN fs \cup { l.parts } |->
                            IF p = l.parts THEN body ELSE fs[p]]]
    IN At(Lookup(fs, path))

\* Path(path).mkdir(parents=parents, exist_ok=True) as pathlib does it:
\* os.mkdir; on FileNotFoundError the parent is made and os.mkdir is tried
\* again; any other OSError is passed over when the path is a directory.
\* The exception raised, "none" when there is none, and the file system
\* afterwards.
RECURSIVE Mkdir(_, _, _)
Mkdir(fs, path, parents) ==
    LET Again(r) == IF r.raises # "none" THEN r ELSE Mkdir(r.fs, path, FALSE)
        At(l) ==
            IF l.errno = "none" /\ l.parts \notin DOMAIN fs
            THEN [raises |-> "none",
                  fs |-> [p \in DOMAIN fs \cup { l.parts } |->
                            IF p = l.parts THEN "directory" ELSE fs[p]]]
            ELSE IF l.errno = "ENOENT"
            THEN IF ~parents \/ path = << >> \/ path = << SLASH >>
                 THEN [raises |-> "FileNotFoundError", fs |-> fs]
                 ELSE Again(Mkdir(fs, SubSeq(path, 1, Len(path) - 1), TRUE))
            ELSE IF l.errno = "none"
            THEN [raises |-> IF IsDirectory(fs, l.parts) THEN "none" ELSE "FileExistsError",
                  fs |-> fs]
            ELSE [raises |-> ErrorClass(l.errno), fs |-> fs]
    IN At(Lookup(fs, path))

\* ------------------------------------------------------------------------
\* dict operations; a dict is the sequence of its values in insertion
\* order, each value carrying its key in the field id.
\* ------------------------------------------------------------------------
HasKey(d, k) == \E i \in 1..Len(d) : d[i].id = k

KeyIndex(d, k) == CHOOSE i \in 1..Len(d) : d[i].id = k

Get(d, k) == d[KeyIndex(d, k)]

\* d[k] = v
Put(d, k, v) ==
    IF HasKey(d, k) THEN [d EXCEPT ![KeyIndex(d, k)] = v] ELSE Append(d, v)

\* d.setdefault(k, v)
setdefault(d, k, v) == IF HasKey(d, k) THEN d ELSE Append(d, v)

Keys(d) == { d[i].id : i \in 1..Len(d) }

NewItem(name) ==
    [id |-> ReplaceSpaces(name), name |-> [en |-> name], image |-> None, tier |-> None]

\* for inp in r["inputs"]: items.setdefault(...)  (same loop for outputs).
\* A name is None when the tooltip has no data-name attribute (lines 111,
\* 121): None.replace raises AttributeError (lines 224, 235), and the
\* loop yields << AttributeError >> in the place of the dict.
RECURSIVE InsertNamed(_, _)
InsertNamed(items, entries) ==
    IF items = << AttributeError >> \/ entries = << >> THEN items
    ELSE IF entries[1].name = None THEN << AttributeError >>
    ELSE InsertNamed(setdefault(items, ReplaceSpaces(entries[1].name),
                                NewItem(entries[1].name)),
                     Tail(entries))

\* lines 222-233 alone: only the inputs of each recipe are inserted
RECURSIVE InsertRecipeItemsInputsOnly(_, _)
InsertRecipeItemsInputsOnly(items, facility_recipes) ==
    IF items = << AttributeError >> \/ facility_recipes = << >> THEN items
    ELSE InsertRecipeItemsInputsOnly(InsertNamed(items, facility_recipes[1].inputs),
                                     Tail(facility_recipes))

\* lines 222-244: the items of every recipe of one facility,
\* << AttributeError >> when a name is None
RECURSIVE InsertRecipeItems(_, _)
InsertRecipeItems(items, facility_recipes) ==
    IF items = << AttributeError >> \/ facility_recipes = << >> THEN items
    ELSE LET r == facility_recipes[1]
         IN InsertRecipeItems(InsertNamed(InsertNamed(items, r.inputs), r.outputs),
                              Tail(facility_recipes))

\* str(seq) for seq >= 0
RECURSIVE IntToStr(_)
IntToStr(n) ==
    LET digit == << "0", "1", "2", "3", "4", "5", "6", "7", "8", "9" >>[(n % 10) + 1]
    IN IF n < 10 THEN << digit >> ELSE IntToStr(n \div 10) \o << digit >>

SEP == << "_", "_" >>

\* f"{facility_id}__{first_out_id}__{seq}"
RecipeId(facility_id, first_out_id, seq) ==
    facility_id \o SEP \o first_out_id \o SEP \o IntToStr(seq)

\* [{"itemId": x["name"].replace(" ", "_"), "amount": x["quantity"]} for x in xs]
ItemRefs(xs) ==
    [i \in 1..Len(xs) |-> [itemId |-> ReplaceSpaces(xs[i].name), amount |-> xs[i].quantity]]

\* lines 247-267: the recipe records of one facility.  acc holds the
\* recipes and facilities dicts; recipe_count is the per-facility counter.
RECURSIVE RecipeLoop(_, _, _, _)
RecipeLoop(acc, facility_id, facility_recipes, recipe_count) ==
    IF facility_recipes = << >> THEN acc
    ELSE LET r == facility_recipes[1]
             first_out_id == ReplaceSpaces(r.outputs[1].name)
             seq == (IF HasKey(recipe_count, first_out_id)
                     THEN Get(recipe_count, first_out_id).n ELSE 0) + 1
             count2 == Put(recipe_count, first_out_id, [id |-> first_out_id, n |-> seq])
             recipe_id == RecipeId(facility_id, first_out_id, seq)
             record == [id |-> recipe_id,
                        facilityId |-> facility_id,
                        inputs |-> ItemRefs(r.inputs),
                        outputs |-> ItemRefs(r.outputs),
                        craftingTime |-> r.time]
             f == KeyIndex(acc.facilities, facility_id)
         IN RecipeLoop([recipes |-> Put(acc.recipes, recipe_id, record),
                        facilities |-> [acc.facilities EXCEPT
                                          ![f].supportedRecipes = Append(@, recipe_id)]],
                       facility_id, Tail(facility_recipes), count2)

\* lines 277-279: if item_id in items: items[item_id]["image"] = image
SetImage(items, item_id, image) ==
    IF HasKey(items, item_id)
    THEN [items EXCEPT ![KeyIndex(items, item_id)].image = image]
    ELSE items

\* lines 272-279: the image job of one thumbnail and the image field of the
\* item the file name points at; ValueError when urljoin raises at line
\* 272.  acc holds img_jobs and items.
QueueThumb(acc, full_src, filename) ==
    LET At(full_url) ==
            IF full_url = RAISED THEN ValueError
            ELSE [img_jobs |-> Append(acc.img_jobs,
                                      [url |-> full_url,
                                       save_path |->
                                           Path(EXPORT \o ITEMS_DIR \o filename)]),
                  items |-> SetImage(acc.items, ReplaceSpaces(Stem(filename)),
                                     ITEMS_DIR \o filename)]
    IN At(urljoin(BASE_URL, full_src))

\* lines 270-279: for src in item_img_srcs
RECURSIVE ThumbLoop(_, _)
ThumbLoop(acc, item_img_srcs) ==
    IF Raised(acc) \/ item_img_srcs = << >> THEN acc
    ELSE ThumbLoop(QueueThumb(acc,
                              normalize_item_image_url(item_img_srcs[1]),
                              ImageFilename(normalize_item_image_url(item_img_srcs[1]))),
                   Tail(item_img_srcs))

\* the four maps, from the results of the recipe loop and the thumbnail
\* loop; ValueError when the thumbnail loop raised
Maps(rl, tl) ==
    IF Raised(tl) THEN tl
    ELSE [items |-> tl.items,
          facilities |-> rl.facilities,
          recipes |-> rl.recipes,
          img_jobs |-> tl.img_jobs]

\* lines 200-279: the body of the aggregation loop for one facility.  st
\* holds items, facilities, recipes and img_jobs.  The body raises, and
\* run() ends, with ValueError when urljoin raises (line 206, then line 272)
\* and with AttributeError when a recipe names an item None (line 224 or 235,
\* reached after line 206 and before line 272).
ProcessFacility(st, facility_name, page) ==
    LET facility_id == ReplaceSpaces(facility_name)
        power == IF page.general_info.Power = None THEN 0 ELSE page.general_info.Power
        tier == page.general_info.Tier
        facility == [id |-> facility_id,
                     name |-> facility_name,
                     tier |-> tier,
                     powerConsumption |-> power,
                     supportedRecipes |-> << >>,
                     image |-> IF Truthy(page.facility_image)
                               THEN FACILITIES_DIR \o facility_id \o PNG
                               ELSE None]
        facilities1 == Put(st.facilities, facility_id, facility)
        Body(full_url, items1) ==
            IF full_url = RAISED THEN ValueError
            ELSE IF items1 = << AttributeError >> THEN AttributeError
            ELSE Maps(RecipeLoop([recipes |-> st.recipes, facilities |-> facilities1],
                                 facility_id, page.recipes, << >>),
                      ThumbLoop([img_jobs |->
                                     IF Truthy(page.facility_image)
                                     THEN Append(st.img_jobs,
                                                 [url |-> full_url,
                                                  save_path |->
                                                      Path(EXPORT \o FACILITIES_DIR
                                                           \o facility_id \o PNG)])
                                     ELSE st.img_jobs,
                                 items |-> items1],
                                page.item_images))
    IN Body(IF Truthy(page.facility_image)
            THEN urljoin(BASE_URL, page.facility_image) ELSE None,
            InsertRecipeItems(st.items, page.recipes))

\* lines 187-279: for facility_name, result in zip(facility_names, results)
RECURSIVE AggregateFacilities(_, _, _)
AggregateFacilities(st, names, results) ==
    IF Raised(st) \/ names = << >> \/ results = << >> THEN st
    ELSE AggregateFacilities(ProcessFacility(st, names[1], results[1]),
                             Tail(names), Tail(results))

EmptyMaps == [items |-> << >>, facilities |-> << >>, recipes |-> << >>, img_jobs |-> << >>]

\* ------------------------------------------------------------------------
\* Inputs of the normalisation check: URLs built from at most MaxUrlParts
\* pieces, flattened to characters.
\* ------------------------------------------------------------------------
MaxUrlParts == 4

UrlPieces == { THUMB, SLASH, QMARK, << "a" >>, << "b" >> }

RECURSIVE Flatten(_)
Flatten(ps) == IF ps = << >> THEN << >> ELSE ps[1] \o Flatten(Tail(ps))

PieceLists == UNION { [1..n -> UrlPieces] : n \in 0..MaxUrlParts }

Urls == { Flatten(ps) : ps \in PieceLists }

\* ------------------------------------------------------------------------
\* The wiki served to one run: facility titles, facility pages as parsed by
\* get_facility_and_recipes, item pages as parsed by get_item_info_page.
\* ------------------------------------------------------------------------
MaxFacilities == 2
MaxRecipes == 2

FA == << "A" >>
FAB == << "A", "_", "_", "B" >>
FASB == << "A", " ", " ", "B" >>
FacilityTitles == { FA, FAB, FASB }

\* list(facilities): the distinct titles in an arbitrary order
FacilityNameLists ==
    { l \in UNION { [1..n -> FacilityTitles] : n \in 0..MaxFacilities } :
        \A i, j \in 1..Len(l) : i # j => l[i] # l[j] }

O == << "O" >>
C == << "C" >>
BC == << "B", "_", "_", "C" >>
BsC == << "B", " ", "C" >>

\* the file part of an image URL for a name: spaces and slashes are escaped
RECURSIVE Quote(_)
Quote(name) ==
    IF name = << >> THEN << >>
    ELSE (IF name[1] = " " THEN << "%", "2", "0" >>
          ELSE IF name[1] = "/" THEN << "%", "2", "F" >>
          ELSE << name[1] >>) \o Quote(Tail(name))

VERSION == << "?", "v" >>
FileUrl(f) == IMAGES \o f \o PNG \o VERSION
ThumbUrl(name) ==
    << "/", "i", "m", "a", "g", "e", "s" >> \o THUMB \o Quote(name) \o PNG
        \o << "/", "6", "4", "p", "x", "-" >> \o Quote(name) \o PNG \o VERSION

Rcp(ins, out) ==
    [inputs |-> [i \in 1..Len(ins) |-> [name |-> ins[i], quantity |-> 2]],
     outputs |-> << [name |-> out, quantity |-> 1] >>,
     time |-> << "5", "s" >>]

NoInfo == [Power |-> None, Tier |-> None]
FullInfo == [Power |-> << "1", "0" >>, Tier |-> << "2" >>]

AllFacilityPages ==
    { [facility_image |-> None,
       item_images |-> << ThumbUrl(C) >>,
       general_info |-> FullInfo, recipes |-> << Rcp(<< O >>, C) >>],
      [facility_image |-> FileUrl(<< "F" >>), item_images |-> << >>,
       general_info |-> NoInfo, recipes |-> << Rcp(<< O >>, BC) >>],
      [facility_image |-> None, item_images |-> << ThumbUrl(BsC) >>,
       general_info |-> NoInfo,
       recipes |-> << Rcp(<< O >>, C), Rcp(<< BsC >>, C) >>],
      [facility_image |-> None, item_images |-> << ThumbUrl(C) >>,
       general_info |-> NoInfo,
       recipes |-> << Rcp(<< O >>, C), Rcp(<< O >>, BC), Rcp(<< BsC, O >>, C) >>] }

\* a page whose facility image has a host that urlsplit rejects, and a
\* page with a recipe whose input tooltip has no data-name attribute
OddFacilityPages ==
    { [facility_image |-> << "/", "/", "[", "x", "/", "F", ".", "p", "n", "g" >>,
       item_images |-> << >>,
       general_info |-> NoInfo, recipes |-> << >>],
      [facility_image |-> None, item_images |-> << >>,
       general_info |-> NoInfo, recipes |-> << Rcp(<< None >>, C) >>] }

FacilityPages ==
    { p \in AllFacilityPages : Len(p.recipes) <= MaxRecipes }
        \cup OddFacilityPages

\* main images with an unusual file name.  For one title: a name that ends
\* in an escaped NUL, and a name of more than NAME_MAX bytes (64 characters
\* of four bytes).  For another: an escaped ".." (the destination is the
\* directory export/images), and a name that leads from export/images/items
\* up to the root and back down to it.
OddImages ==
    [title \in { BC, ReplaceSpaces(BsC) } |->
       IF title = BC
       THEN { IMAGES \o title \o << "%", "0", "0" >>,
              IMAGES \o [k \in 1..64 |-> CharOf(128512)] }
       ELSE { IMAGES \o << "%", "2", "E", "%", "2", "E" >>,
              IMAGES \o Quote(Flatten([k \in 1..4 |-> DOTDOT \o SLASH])
                                \o WORKDIR[1] \o SLASH \o EXPORT \o ITEMS_DIR)
                     \o title \o PNG }]

\* the pages the wiki may serve for an item title: one without infobox
\* data, one with a main image and a Tier row, and for some titles one for
\* each unusual image
ItemPages(title) ==
    { [image_src |-> None, general_info |-> NoInfo],
      [image_src |-> FileUrl(title),
       general_info |-> [Power |-> None, Tier |-> << "T", "-" >> \o title]] }
    \cup (IF title \in DOMAIN OddImages
          THEN { [image_src |-> src, general_info |-> NoInfo] : src \in OddImages[title] }
          ELSE { })

\* the body an image URL may answer with: the image (success status) or,
\* for the one image the wiki has lost, an error document (non-success
\* status)
LostImageUrl == urljoin(BASE_URL, FileUrl(O))
ImageBodies(url) ==
    IF url = LostImageUrl THEN { "image", "error_document" } ELSE { "image" }

VARIABLES
    pc,              \* where run() stands
    facility_names,  \* line 183
    fac_tasks,       \* state of each get_facility_and_recipes task (line 184)
    fac_results,     \* results of the first gather (line 185)
    items, facilities, recipes, img_jobs,   \* lines 187-190
    items_parsed,    \* the items map as the facility pass leaves it (line 279)
    item_names,      \* line 283
    item_tasks,      \* state of each get_item_info_page task (line 284)
    item_results,    \* results of the second gather (line 285)
    item_served,     \* the page served to each item request
    dl_tasks,        \* state of each download_image task (line 303)
    dl_get,          \* whether the task issued its GET (line 22)
    files,           \* the file system: absolute path -> content
    json_written,    \* the JSON files written (lines 308-313)
    norm_src, norm_out   \* argument and result of normalize_item_image_url

pvars == << pc, facility_names, fac_tasks, fac_results, items, items_parsed,
            facilities, recipes,
            img_jobs, item_names, item_tasks, item_results, item_served,
            dl_tasks, dl_get, files, json_written >>

nvars == << norm_src, norm_out >>

vars == << pvars, nvars >>

\* asyncio.gather: every task has returned
AllDone(tasks) == \A i \in 1..Len(tasks) : tasks[i] = "done"

\* the slot of a task that has not returned yet
NoResult == [pending |-> TRUE]

\* results in arrival order instead of argument order
GatherStoreArrival(results, i, v) ==
    LET k == CHOOSE k \in 1..Len(results) :
                /\ results[k] = NoResult
                /\ \A j \in 1..(k - 1) : results[j] # NoResult
    IN [results EXCEPT ![k] = v]

\* asyncio.gather: the result list is ordered as the awaitables
GatherStore(results, i, v) == [results EXCEPT ![i] = v]

Running(n) == [i \in 1..n |-> "running"]
NoResults(n) == [i \in 1..n |-> NoResult]

\* a file system with the directories dirs and the regular files regular
Tree(dirs, regular) ==
    [p \in { SubSeq(WORKDIR, 1, n) : n \in 0..Len(WORKDIR) } \cup dirs \cup regular |->
       IF p \in regular THEN "earlier" ELSE "directory"]

\* what the working directory holds before the run: the facility image
\* directory with the image of one facility and no item image directory;
\* or a regular file by the name export
EarlierTrees ==
    { Tree({ WORKDIR \o Path(EXPORT),
             WORKDIR \o Path(EXPORT \o << "i", "m", "a", "g", "e", "s" >>),
             WORKDIR \o Path(EXPORT \o FACILITIES_DIR) },
           { WORKDIR \o Path(EXPORT \o FACILITIES_DIR \o FA \o PNG) }),
      Tree({ }, { WORKDIR \o Path(EXPORT) }) }

PipelineInit ==
    /\ pc = "start"
    /\ facility_names = << >>
    /\ fac_tasks = << >>
    /\ fac_results = << >>
    /\ items = << >>
    /\ items_parsed = << >>
    /\ facilities = << >>
    /\ recipes = << >>
    /\ img_jobs = << >>
    /\ item_names = << >>
    /\ item_tasks = << >>
    /\ item_results = << >>
    /\ item_served = << >>
    /\ dl_tasks = << >>
    /\ dl_get = << >>
    /\ files \in EarlierTrees
    /\ json_written = {}

Init ==
    /\ PipelineInit
    /\ norm_src = << >>
    /\ norm_out = None

\* lines 178-179: the two image directories are made with the directories
\* above them; an mkdir that raises ends run()
MakeDirs ==
    LET Second(m) ==
            IF m.raises # "none" THEN m
            ELSE Mkdir(m.fs, Path(EXPORT \o FACILITIES_DIR), TRUE)
        Done(m) ==
            /\ files' = m.fs
            /\ pc' = IF m.raises = "none" THEN "discover" ELSE "aborted"
    IN /\ pc = "start"
       /\ Done(Second(Mkdir(files, Path(EXPORT \o ITEMS_DIR), TRUE)))
       /\ UNCHANGED << facility_names, fac_tasks, fac_results, items, items_parsed,
                       facilities, recipes, img_jobs, item_names, item_tasks,
                       item_results, item_served, dl_tasks, dl_get, json_written >>

\* line 183: get_facilities returns the titles and line 185 starts one
\* get_facility_and_recipes task per title
GetFacilities ==
    /\ pc = "discover"
    /\ \E names \in FacilityNameLists :
          /\ facility_names' = names
          /\ fac_tasks' = Running(Len(names))
          /\ fac_results' = NoResults(Len(names))
    /\ pc' = "facility_fetch"
    /\ UNCHANGED << items, items_parsed, facilities, recipes, img_jobs, item_names, item_tasks,
                    item_results, item_served, dl_tasks, dl_get, files, json_written >>

\* lines 74-78: the index request raises: client.get on a network error, or
\* resp.json()["parse"] on the error document of a non-success answer (the
\* status itself is never looked at).  Nothing catches it: run() ends and
\* asyncio.run cancels what is still pending.  "aborted" is the run from the
\* first exception on: until they are cancelled, the tasks that are still
\* running may go on and return.  A second task that raises is left as
\* "running": its exception is dropped and, like a cancelled task, it
\* changes nothing.
GetFacilitiesFails ==
    /\ pc = "discover"
    /\ pc' = "aborted"
    /\ UNCHANGED << facility_names, items_parsed, fac_tasks, fac_results, items, facilities, recipes,
                    img_jobs, item_names, item_tasks, item_results, item_served,
                    dl_tasks, dl_get, files, json_written >>

\* lines 145-155: one facility page arrives and is parsed.  gather does not
\* cancel the other tasks when one has raised: they go on until asyncio.run
\* cancels them, but their results are no longer collected.
FacilityFetchDone(i) ==
    /\ pc \in { "facility_fetch", "aborted" }
    /\ fac_tasks[i] = "running"
    /\ IF pc = "aborted"
       THEN UNCHANGED fac_results
       ELSE \E page \in FacilityPages : fac_results' = GatherStore(fac_results, i, page)
    /\ fac_tasks' = [fac_tasks EXCEPT ![i] = "done"]
    /\ UNCHANGED << pc, facility_names, items_parsed, items, facilities, recipes, img_jobs,
                    item_names, item_tasks, item_results, item_served,
                    dl_tasks, dl_get, files, json_written >>

\* lines 145-154: one facility task raises: the request (network error),
\* resp.json()["parse"] (an error document where the parse JSON is
\* expected) or the parsing of the page (an item count that is no integer,
\* or an output without a count, in get_recipes); gather re-raises in run()
FacilityFetchFails(i) ==
    /\ pc = "facility_fetch"
    /\ fac_tasks[i] = "running"
    /\ fac_tasks' = [fac_tasks EXCEPT ![i] = "failed"]
    /\ pc' = "aborted"
    /\ UNCHANGED << facility_names, items_parsed, fac_results, items, facilities, recipes,
                    img_jobs, item_names, item_tasks, item_results, item_served,
                    dl_tasks, dl_get, files, json_written >>

\* lines 187-284: the maps of the facility pass are in place and one
\* get_item_info_page task is started per item; when the pass raised, run()
\* ends with its local maps
StartItemFetch(st) ==
    IF Raised(st)
    THEN /\ pc' = "aborted"
         /\ UNCHANGED << items, items_parsed, facilities, recipes, img_jobs,
                         item_names, item_tasks, item_results, item_served >>
    ELSE /\ items' = st.items
         /\ items_parsed' = st.items
         /\ facilities' = st.facilities
         /\ recipes' = st.recipes
         /\ img_jobs' = st.img_jobs
         /\ item_names' = [i \in 1..Len(st.items) |-> st.items[i].name.en]
         /\ item_tasks' = Running(Len(st.items))
         /\ item_results' = NoResults(Len(st.items))
         /\ item_served' = NoResults(Len(st.items))
         /\ pc' = "item_fetch"

\* lines 185-285: the first gather returns, the facility pass builds the
\* maps, and one get_item_info_page task is started per item
ParseFacilities ==
    /\ pc = "facility_fetch"
    /\ AllDone(fac_tasks)
    /\ StartItemFetch(AggregateFacilities(EmptyMaps, facility_names, fac_results))
    /\ UNCHANGED << facility_names, fac_tasks, fac_results, dl_tasks, dl_get,
                    files, json_written >>

\* lines 162-171: one item page arrives and is parsed
ItemFetchDone(i) ==
    /\ pc \in { "item_fetch", "aborted" }
    /\ item_tasks[i] = "running"
    /\ \E page \in ItemPages(ReplaceSpaces(item_names[i])) :
          /\ item_results' = IF pc = "aborted" THEN item_results
                              ELSE GatherStore(item_results, i, page)
          /\ item_served' = [item_served EXCEPT ![i] = page]
    /\ item_tasks' = [item_tasks EXCEPT ![i] = "done"]
    /\ UNCHANGED << pc, facility_names, items_parsed, fac_tasks, fac_results, items, facilities,
                    recipes, img_jobs, item_names, dl_tasks, dl_get, files,
                    json_written >>

\* lines 162-170: one item task raises: the request (network error),
\* resp.json()["parse"] (an error document where the parse JSON is
\* expected) or the parsing of the page; gather re-raises in run()
ItemFetchFails(i) ==
    /\ pc = "item_fetch"
    /\ item_tasks[i] = "running"
    /\ item_tasks' = [item_tasks EXCEPT ![i] = "failed"]
    /\ pc' = "aborted"
    /\ UNCHANGED << facility_names, items_parsed, fac_tasks, fac_results, items, facilities, recipes,
                    img_jobs, item_names, item_results, item_served,
                    dl_tasks, dl_get, files, json_written >>

\* lines 288-298: the tier and the main image of one item; ValueError when
\* urljoin raises at line 293.  st holds items and img_jobs.
EnrichItem(st, i, tier, image_src, filename) ==
    LET At(full_url) ==
            IF full_url = RAISED THEN ValueError
            ELSE [items |-> [st.items EXCEPT
                               ![i].tier = IF Truthy(tier) THEN tier ELSE @,
                               ![i].image = IF Truthy(image_src)
                                            THEN ITEMS_DIR \o filename ELSE @],
                  img_jobs |-> IF Truthy(image_src)
                               THEN Append(st.img_jobs,
                                           [url |-> full_url,
                                            save_path |->
                                                Path(EXPORT \o ITEMS_DIR \o filename)])
                               ELSE st.img_jobs]
    IN At(IF Truthy(image_src) THEN urljoin(BASE_URL, image_src) ELSE None)

\* lines 287-298: for item, (image_src, general_info) in zip(items.values(),
\* results), from position i on
RECURSIVE ItemPass(_, _, _)
ItemPass(st, results, i) ==
    IF Raised(st) THEN st
    ELSE IF i > Len(st.items) \/ i > Len(results) THEN st
    ELSE ItemPass(EnrichItem(st, i, results[i].general_info.Tier, results[i].image_src,
                             IF Truthy(results[i].image_src)
                             THEN ImageFilename(results[i].image_src) ELSE << >>),
                  results, i + 1)

\* lines 301-303: gather starts one download_image task per image job; each
\* task runs up to its first await before any response can be delivered and
\* before run() is resumed, so every exists() check (line 20) sees the file
\* system as it is at this point.  A task whose exists() raises has failed
\* before it issues a GET, and gather re-raises in run().  When the item
\* pass raised, run() ends with its local maps.
StartDownloads(st) ==
    LET Go(tasks) ==
            /\ dl_tasks' = tasks
            /\ dl_get' = [i \in 1..Len(tasks) |-> tasks[i] = "running"]
            /\ pc' = IF \E i \in 1..Len(tasks) : tasks[i] = "failed"
                     THEN "aborted" ELSE "download"
    IN IF Raised(st)
       THEN /\ pc' = "aborted"
            /\ UNCHANGED << items, img_jobs, dl_tasks, dl_get >>
       ELSE /\ items' = st.items
            /\ img_jobs' = st.img_jobs
            /\ Go([i \in 1..Len(st.img_jobs) |->
                     IF ExistsRaises(files, st.img_jobs[i].save_path) THEN "failed"
                     ELSE IF Exists(files, st.img_jobs[i].save_path) THEN "done"
                     ELSE "running"])

\* lines 285-304: the second gather returns, the item pass enriches the
\* items, and the downloads are started
ParseItems ==
    /\ pc = "item_fetch"
    /\ AllDone(item_tasks)
    /\ StartDownloads(ItemPass([items |-> items, img_jobs |-> img_jobs], item_results, 1))
    /\ UNCHANGED << facility_names, items_parsed, fac_tasks, fac_results, facilities,
                    recipes, item_names, item_tasks, item_results, item_served, files,
                    json_written >>

\* lines 22-24: the response of one image request arrives and its body is
\* written to save_path, whatever the status of the response; when
\* write_bytes raises, the task fails and gather re-raises in run().  A task
\* keeps running, and writes its file, after another task of the gather has
\* raised.
DownloadDone(i) ==
    LET Written(w) ==
            /\ files' = w.fs
            /\ IF w.raises = "none"
               THEN /\ dl_tasks' = [dl_tasks EXCEPT ![i] = "done"]
                    /\ UNCHANGED pc
               ELSE /\ dl_tasks' = [dl_tasks EXCEPT ![i] = "failed"]
                    /\ pc' = "aborted"
    IN /\ pc \in { "download", "aborted" }
       /\ dl_tasks[i] = "running"
       /\ \E body \in ImageBodies(img_jobs[i].url) :
             Written(WriteBytes(files, img_jobs[i].save_path, body))
       /\ UNCHANGED << facility_names, items_parsed, fac_tasks, fac_results, items,
                       facilities, recipes, img_jobs, item_names, item_tasks,
                       item_results, item_served, dl_get, json_written >>

\* line 22: client.get raises (network error); gather re-raises in run()
DownloadFails(i) ==
    /\ pc = "download"
    /\ dl_tasks[i] = "running"
    /\ dl_tasks' = [dl_tasks EXCEPT ![i] = "failed"]
    /\ pc' = "aborted"
    /\ UNCHANGED << facility_names, items_parsed, fac_tasks, fac_results, items, facilities, recipes,
                    img_jobs, item_names, item_tasks, item_results, item_served,
                    dl_get, files, json_written >>

\* the three documents in the order they are written
JsonFiles ==
    [k \in 1..3 |->
       EXPORT \o << << "i", "t", "e", "m", "s" >>,
                    << "f", "a", "c", "i", "l", "i", "t", "i", "e", "s" >>,
                    << "r", "e", "c", "i", "p", "e", "s" >> >>[k]
              \o << ".", "j", "s", "o", "n" >>]

\* lines 308-313: each document is opened for writing and dumped, up to the
\* first open that raises.  st holds the exception raised, the file system
\* and the names of the documents written.
RECURSIVE DumpAll(_, _)
DumpAll(st, names) ==
    LET Dumped(w) ==
            DumpAll([raises |-> w.raises,
                     fs |-> w.fs,
                     written |-> IF w.raises = "none"
                                 THEN st.written \cup { names[1] } ELSE st.written],
                    Tail(names))
    IN IF names = << >> \/ st.raises # "none" THEN st
       ELSE Dumped(WriteBytes(st.fs, Path(names[1]), "json"))

\* lines 307-313: Path("export").mkdir(exist_ok=True), then the documents
ExportJson ==
    LET Made(m) ==
            DumpAll([raises |-> m.raises, fs |-> m.fs, written |-> { }], JsonFiles)
        Done(r) ==
            /\ files' = r.fs
            /\ json_written' = r.written
            /\ pc' = IF r.raises = "none" THEN "done" ELSE "aborted"
    IN /\ Done(Made(Mkdir(files, Path(EXPORT), FALSE)))
       /\ UNCHANGED << facility_names, items_parsed, fac_tasks, fac_results, items,
                       facilities, recipes, img_jobs, item_names, item_tasks,
                       item_results, item_served, dl_tasks, dl_get >>

\* the export written without waiting for the downloads
WriteJsonNoBarrier ==
    /\ pc = "download"
    /\ ExportJson

\* lines 302-313: the third gather returns and the three JSON files are
\* written
WriteJson ==
    /\ pc = "download"
    /\ AllDone(dl_tasks)
    /\ ExportJson

Next ==
    \/ MakeDirs /\ UNCHANGED nvars
    \/ GetFacilities /\ UNCHANGED nvars
    \/ GetFacilitiesFails /\ UNCHANGED nvars
    \/ \E i \in 1..Len(fac_tasks) : FacilityFetchDone(i) /\ UNCHANGED nvars
    \/ \E i \in 1..Len(fac_tasks) : FacilityFetchFails(i) /\ UNCHANGED nvars
    \/ ParseFacilities /\ UNCHANGED nvars
    \/ \E i \in 1..Len(item_tasks) : ItemFetchDone(i) /\ UNCHANGED nvars
    \/ \E i \in 1..Len(item_tasks) : ItemFetchFails(i) /\ UNCHANGED nvars
    \/ ParseItems /\ UNCHANGED nvars
    \/ \E i \in 1..Len(dl_tasks) : DownloadDone(i) /\ UNCHANGED nvars
    \/ \E i \in 1..Len(dl_tasks) : DownloadFails(i) /\ UNCHANGED nvars
    \/ WriteJson /\ UNCHANGED nvars

Spec == Init /\ [][Next]_vars

\* ------------------------------------------------------------------------
\* normalize_item_image_url applied to one URL
\* ------------------------------------------------------------------------
NormInit ==
    /\ norm_src \in Urls
    /\ norm_out = None
    /\ PipelineInit

Normalize ==
    /\ norm_out = None
    /\ norm_out' = normalize_item_image_url(norm_src)
    /\ UNCHANGED << norm_src, pvars >>

NormNext == Normalize

SpecNorm == NormInit /\ [][NormNext]_vars

\* The result the specification describes: '/images/', the first path
\* segment after '/thumb/', then '?' and everything after it if the URL has
\* a '?'; the URL itself when it has no '/thumb/'.
ClaimedNormalize(src) ==
    LET t == Find(src, THUMB)
        after == SubSeq(src, t + Len(THUMB), Len(src))
        s == Find(after, SLASH)
        segment == IF s = 0 THEN after ELSE SubSeq(after, 1, s - 1)
        q == Find(src, QMARK)
        query == IF q = 0 THEN << >> ELSE SubSeq(src, q, Len(src))
    IN IF t = 0 THEN src ELSE IMAGES \o segment \o query

\* C7: normalize_item_image_url returns '/images/' + the first path segment
\* after '/thumb/' + the URL's whole query string, and returns a URL
\* without '/thumb/' unchanged.
C7_NormalizeAsClaimed == norm_out # None => norm_out = ClaimedNormalize(norm_src)

\* ------------------------------------------------------------------------
\* Properties
\* ------------------------------------------------------------------------
Range(l) == { l[i] : i \in 1..Len(l) }

AfterFacilityPass == pc \in { "item_fetch", "download", "done" }
AfterItemPass == pc \in { "download", "done" }

ReferencedItemIds ==
    UNION { { x.itemId : x \in Range(r.inputs) \cup Range(r.outputs) } : r \in Range(recipes) }

\* C1: every itemId in the inputs or outputs of a record of the recipes map
\* is a key of the items map, after the facility pass and after the item pass.
C1_ItemsCoverRecipes == ReferencedItemIds \subseteq Keys(items)

C1_Witness ==
    /\ AfterItemPass
    /\ \E r \in Range(recipes) :
          /\ r.inputs # << >>
          /\ r.outputs[1].itemId \notin { x.itemId : x \in Range(r.inputs) }
    /\ \E it \in Range(items) : it.tier # None

\* C2: after the facility pass, the ids in a facility's supportedRecipes are
\* exactly the ids of the recipes whose facilityId is that facility's id.
C2_SupportedRecipesExact ==
    AfterFacilityPass =>
        \A f \in Range(facilities) :
            Range(f.supportedRecipes) =
                { r.id : r \in { q \in Range(recipes) : q.facilityId = f.id } }

RECURSIVE TotalParsed(_)
TotalParsed(results) ==
    IF results = << >> THEN 0 ELSE Len(results[1].recipes) + TotalParsed(Tail(results))

\* C3: no two recipes of the run receive the same id: the recipes map holds
\* one record per recipe parsed from the facility pages, none overwritten.
C3_OneRecordPerParsedRecipe ==
    AfterFacilityPass => Len(recipes) = TotalParsed(fac_results)

\* C4: of two download_image calls with the same destination, the file not
\* existing when the first one checks, only one issues a GET.
C4_OneGetPerDestination ==
    \A i, j \in 1..Len(dl_tasks) :
        (i < j /\ img_jobs[i].save_path = img_jobs[j].save_path /\ dl_get[i])
            => ~dl_get[j]

\* C5: a failed request aborts the run before any JSON file is written, and
\* no image file holds the body of a non-success response.
C5_FailFastNoJson ==
    /\ pc = "aborted" => json_written = {}
    /\ \A p \in DOMAIN files : files[p] # "error_document"

\* C6: no item fetch is issued before every facility fetch has completed, no
\* download before every item fetch has completed, and no JSON file is
\* written before every download has completed.
C6_PhaseBarriers ==
    /\ item_tasks # << >> => AllDone(fac_tasks)
    /\ dl_tasks # << >> => AllDone(item_tasks)
    /\ json_written # {} => AllDone(dl_tasks)

C6_Witness ==
    /\ pc = "done"
    /\ Len(fac_tasks) >= 2
    /\ Len(item_tasks) >= 2
    /\ Cardinality({ i \in 1..Len(dl_tasks) : dl_get[i] }) >= 2

\* C8: no two download tasks that are running at the same time have the
\* same destination file.
C8_NoSharedFile ==
    \A i, j \in 1..Len(dl_tasks) :
        (i # j /\ dl_tasks[i] = "running" /\ dl_tasks[j] = "running")
            => img_jobs[i].save_path # img_jobs[j].save_path

\* C9: after the item pass, each item has the tier and the main image of the
\* page that was served for its own name, and keeps its facility-pass value
\* where that page has none.
C9_OwnPage ==
    AfterItemPass =>
        \A i \in 1..Len(items) :
            LET page == item_served[i]
                before == items_parsed[i]
            IN /\ items[i].tier =
                    (IF Truthy(page.general_info.Tier)
                     THEN page.general_info.Tier ELSE before.tier)
               /\ items[i].image =
                    (IF Truthy(page.image_src)
                     THEN ITEMS_DIR \o ImageFilename(page.image_src)
                     ELSE before.image)

C9_Witness ==
    /\ AfterItemPass
    /\ \E i, j \in 1..Len(items) :
          /\ i < j
          /\ item_served[i] # item_served[j]
          /\ Truthy(item_served[j].image_src)
          /\ items_parsed[j].image # None
          /\ items_parsed[j].image # items[j].image

\* the path names a file that is not a directory
IsFile(fs, path) == Exists(fs, path) /\ fs[Lookup(fs, path).parts] # "directory"

\* C10: when the JSON files are written, every non-null image field of an
\* item or facility names a path that was queued as an image job and at
\* which there is a file.
C10_ImagesResolve ==
    pc = "done" =>
        \A rec \in Range(items) \cup Range(facilities) :
            rec.image # None =>
                /\ \E job \in Range(img_jobs) : job.save_path = Path(EXPORT \o rec.image)
                /\ IsFile(files, Path(EXPORT \o rec.image))
====
